---- MODULE Spec2Model ----
(***************************************************************************)
(* Model of paddle/cinn/ir/lowered_func.h: Argument, CudaAxisInfo,         *)
(* TempSpaceInfo and _LoweredFunc_ with its preparation pipeline.          *)
(*                                                                         *)
(* Buffers, vars and tensors are addressed by their interned name.  The    *)
(* body is opaque except for what the preparation steps query: the tensor  *)
(* reference nodes it contains (in traversal order) and the loops bound    *)
(* to a GPU grid/block axis.                                               *)
(***************************************************************************)
EXTENDS Integers, Sequences, FiniteSets, TLC

VARIABLES argv, stage, fn, call, err

vars == <<argv, stage, fn, call, err>>

-----------------------------------------------------------------------------
(* Bounds *)

\* length of the argument vector a builder assembles
MaxArgv == 2
\* arguments handed to Make
MaxArgs == 2
\* temp spaces a pass threads through the signature
MaxTempSpaces == 1
\* tensor reference nodes of a body
MaxRefs == 2
\* loops of a body bound to a GPU axis
MaxLoops == 2

-----------------------------------------------------------------------------
(* Entities *)

Undef == "undef"
BufferNames == {"A", "B", "C"}
VarNames == {"n"}
\* buffers whose size is not statically known at call time
DynamicBuffers == {"B", "C"}
IOs == {"kInput", "kOutput", "kUnknown"}
DeviceAPIs == {"UNK", "Host", "GPU"}
FuncNames == {"f"}
Extents == {32, 256}
Axes == {"grid", "block"} \X {0, 1, 2}
NoError == [kind |-> "none", name |-> Undef]

-----------------------------------------------------------------------------
(* Argument *)

Argument == [io |-> "kInput", buffer_arg_ |-> Undef, var_arg_ |-> Undef]

ArgumentBuffer(buffer, io) == [io |-> io, buffer_arg_ |-> buffer, var_arg_ |-> Undef]

ArgumentVar(var, io) == [io |-> io, buffer_arg_ |-> Undef, var_arg_ |-> var]

set_buffer(a, x) == [a EXCEPT !.buffer_arg_ = x, !.var_arg_ = Undef]

set_var(a, x) == [a EXCEPT !.var_arg_ = x, !.buffer_arg_ = Undef]

is_input(a) == a.io = "kInput"

\* is_output that takes every argument not tagged input for an output
is_output_not_input(a) == a.io # "kInput"

\* is_output that tests the input tag
is_output_as_input(a) == a.io = "kInput"

is_output(a) == a.io = "kOutput"

\* is_var that tests the buffer field
is_var_of_buffer(a) == a.buffer_arg_ # Undef

is_var(a) == a.var_arg_ # Undef

\* is_buffer that tests the scalar field
is_buffer_of_var(a) == a.var_arg_ # Undef

is_buffer(a) == a.buffer_arg_ # Undef

\* defined that wants both fields set
defined_both(a) == is_var(a) /\ is_buffer(a)

defined(a) == is_var(a) \/ is_buffer(a)

name(a) == IF is_buffer(a) THEN a.buffer_arg_ ELSE a.var_arg_

-----------------------------------------------------------------------------
(* CudaAxisInfo: offsets 0..2 index the x, y, z dimension *)

DefaultDim == 1

set_valid(c, x) == [c EXCEPT !.valid_ = x]

valid(c) == c.valid_

\* a constructor that ends with set_valid(true)
CudaAxisInfo_valid ==
    set_valid([grid_dims_ |-> [i \in 1..3 |-> DefaultDim],
               block_dims_ |-> [i \in 1..3 |-> DefaultDim],
               valid_ |-> FALSE], TRUE)

CudaAxisInfo ==
    set_valid([grid_dims_ |-> [i \in 1..3 |-> DefaultDim],
               block_dims_ |-> [i \in 1..3 |-> DefaultDim],
               valid_ |-> FALSE], FALSE)

\* the setters flip valid_ to true as a side effect
set_grid_dim(c, offset, x) ==
    [c EXCEPT !.grid_dims_[offset + 1] = x, !.valid_ = TRUE]

set_block_dim(c, offset, x) ==
    [c EXCEPT !.block_dims_[offset + 1] = x, !.valid_ = TRUE]

grid_dim(c, offset) == c.grid_dims_[offset + 1]

block_dim(c, offset) == c.block_dims_[offset + 1]

-----------------------------------------------------------------------------
(* TempSpaceInfo *)

\* the size expression of a temp space, in bytes
TempSpaceSize == "bytes"

TempSpaceInfo(size, arg_idx, need_zero_init) ==
    [size_ |-> size, arg_idx_ |-> arg_idx, need_zero_init_ |-> need_zero_init]

arg_idx(t) == t.arg_idx_

-----------------------------------------------------------------------------
(* The body, as far as this layer queries it *)

\* a tensor reference node: the tensor's name, and whether the node sits
\* inside an expression-generated sub-expression
TensorRefs == [name : BufferNames, gen : BOOLEAN]

\* refs: the tensor reference nodes in traversal order; annots: the loops
\* bound to a GPU axis; head/tail: the statements AllocTempBuffer inserts
EmptyBody == [refs |-> <<>>, annots |-> {}, head |-> <<>>, tail |-> <<>>]

\* a loop bound to a GPU axis, with its extent; an axis is bound by at most
\* one loop of a body
BoundLoops == [axis : Axes, extent : Extents]

AnnotatedAxes(body) == {l.axis : l \in body.annots}

-----------------------------------------------------------------------------
(* _LoweredFunc_ *)

\* a default of false for with_expr_gen_tensor
with_expr_gen_tensor_default_false == FALSE

with_expr_gen_tensor_default == TRUE

\* the node as its constructor leaves it; num_output_tensors has no
\* initializer, so its value n is whatever the storage holds
NewNode(n) ==
    [name |-> "",
     args |-> <<>>,
     temp_bufs |-> <<>>,
     temp_spaces |-> <<>>,
     num_output_tensors |-> n,
     body |-> EmptyBody,
     device_api |-> "UNK",
     cuda_axis_info |-> CudaAxisInfo,
     alloc_output_buffer_exprs |-> <<>>,
     dealloc_output_buffer_exprs |-> <<>>,
     buffer_data_cast_exprs |-> <<>>,
     argument_prepare_exprs |-> <<>>]

\* is_gpu_host decided by the device tag
is_gpu_host_by_device(f) == f.device_api = "GPU"

is_gpu_host(f) == valid(f.cuda_axis_info)

-----------------------------------------------------------------------------
(* Preparation steps *)

\* no deduplication: every node is its own tensor
DedupByNode(ts, seen) == ts

RECURSIVE DedupByName(_, _)
\* keeps the first tensor of every name
DedupByName(ts, seen) ==
    IF ts = <<>> THEN <<>>
    ELSE IF Head(ts).name \in seen THEN DedupByName(Tail(ts), seen)
    ELSE <<Head(ts)>> \o DedupByName(Tail(ts), seen \cup {Head(ts).name})

\* the tensors the body references, one per name; a tensor is the node that
\* references it and its name
CollectAllTensorReference(f, with_expr_gen_tensor) ==
    LET nodes == [i \in 1..Len(f.body.refs) |->
                    [node |-> i, name |-> f.body.refs[i].name,
                     gen |-> f.body.refs[i].gen]]
        kept == SelectSeq(nodes, LAMBDA t : with_expr_gen_tensor \/ ~t.gen)
    IN  [i \in 1..Len(DedupByName(kept, {})) |->
            [node |-> DedupByName(kept, {})[i].node,
             name |-> DedupByName(kept, {})[i].name]]

RECURSIVE OutputBuffers(_, _)
\* the buffers of the output arguments whose size is not statically known,
\* in argument order, each buffer once
OutputBuffers(args, seen) ==
    IF args = <<>> THEN <<>>
    ELSE LET a == Head(args) IN
         IF is_output(a) /\ is_buffer(a) /\ name(a) \in DynamicBuffers
                         /\ name(a) \notin seen
         THEN <<name(a)>> \o OutputBuffers(Tail(args), seen \cup {name(a)})
         ELSE OutputBuffers(Tail(args), seen)

Reverse(s) == [i \in 1..Len(s) |-> s[Len(s) + 1 - i]]

PrepareAllocOutputBufferExprs(f) ==
    LET bufs == OutputBuffers(f.args, {})
    IN  [f EXCEPT !.alloc_output_buffer_exprs =
            [i \in 1..Len(bufs) |-> [op |-> "Alloc", buffer |-> bufs[i]]]]

PrepareDeallocOutputBufferExprs(f) ==
    LET bufs == Reverse(OutputBuffers(f.args, {}))
    IN  [f EXCEPT !.dealloc_output_buffer_exprs =
            [i \in 1..Len(bufs) |-> [op |-> "Free", buffer |-> bufs[i]]]]

ArgNames(f) == {name(f.args[i]) : i \in {j \in 1..Len(f.args) : defined(f.args[j])}}

\* local allocation at the head and deallocation at the tail of the body for
\* every temp buffer that is not an argument
AllocTempBuffer(f) ==
    LET locals == SelectSeq(f.temp_bufs, LAMBDA b : b \notin ArgNames(f))
    IN  [f EXCEPT !.body.head = [i \in 1..Len(locals) |-> [op |-> "Alloc", buffer |-> locals[i]]],
                  !.body.tail = [i \in 1..Len(locals) |->
                                    [op |-> "Free", buffer |-> Reverse(locals)[i]]]]

\* one unwrapping statement per buffer (handle) argument
PrepareArgumentExprs(f) ==
    LET handles == SelectSeq(f.args, is_buffer)
    IN  [f EXCEPT !.argument_prepare_exprs =
            [i \in 1..Len(handles) |-> [op |-> "Unwrap", buffer |-> name(handles[i])]]]

\* one typed-pointer cast per referenced buffer; the list is rebuilt
PrepareBufferCastExprs(f, with_expr_gen_tensor) ==
    LET tensors == CollectAllTensorReference(f, with_expr_gen_tensor)
    IN  [f EXCEPT !.buffer_data_cast_exprs =
            [i \in 1..Len(tensors) |-> [op |-> "Cast", buffer |-> tensors[i].name]]]

RECURSIVE SetDims(_, _)
SetDims(c, loops) ==
    IF loops = {} THEN c
    ELSE LET l == CHOOSE x \in loops : TRUE
             c1 == IF l.axis[1] = "grid" THEN set_grid_dim(c, l.axis[2], l.extent)
                   ELSE set_block_dim(c, l.axis[2], l.extent)
         IN  SetDims(c1, loops \ {l})

\* only for a GPU target: the launch shape is derived from the loops of the
\* body that are bound to a grid/block axis
PrepareCudaAxisInfoFromBody(f) ==
    IF f.device_api = "GPU"
    THEN [f EXCEPT !.cuda_axis_info = SetDims(CudaAxisInfo, f.body.annots)]
    ELSE f

-----------------------------------------------------------------------------
(* CheckValid *)

TensorArgCount(f) == Len(f.args) - Len(f.temp_spaces)

\* the referenced tensors that neither args nor temp_bufs declare
UnresolvedReferences(f) ==
    SelectSeq(CollectAllTensorReference(f, TRUE),
              LAMBDA t : t.name \notin ArgNames(f)
                         /\ t.name \notin {f.temp_bufs[i] : i \in 1..Len(f.temp_bufs)})

OutputTensorCount(f) ==
    Cardinality({i \in 1..TensorArgCount(f) : is_output(f.args[i]) /\ is_buffer(f.args[i])})

OutputCount(f) ==
    Cardinality({i \in 1..TensorArgCount(f) : is_output(f.args[i])})

SignatureOk(f) ==
    LET m == TensorArgCount(f)
        n == f.num_output_tensors
    IN  /\ m >= 0
        /\ \A k \in 1..Len(f.temp_spaces) : arg_idx(f.temp_spaces[k]) = m + k - 1
        /\ n = OutputTensorCount(f)
        /\ n = OutputCount(f)
        /\ \A i \in 1..m : \A j \in (i + 1)..m :
              ~(is_output(f.args[i]) /\ is_input(f.args[j]))
        /\ \A i \in (m - n + 1)..m : is_output(f.args[i]) /\ is_buffer(f.args[i])

\* the error CheckValid raises, NoError when the function is consistent
CheckValid(f) ==
    IF UnresolvedReferences(f) # <<>>
    THEN [kind |-> "UnresolvedReferenceError", name |-> UnresolvedReferences(f)[1].name]
    ELSE IF ~SignatureOk(f)
    THEN [kind |-> "SignatureMismatchError", name |-> f.name]
    ELSE NoError

\* the derivation pipeline, CheckValid last
Prepare(f) ==
    PrepareCudaAxisInfoFromBody(
      PrepareBufferCastExprs(
        PrepareArgumentExprs(
          AllocTempBuffer(
            PrepareDeallocOutputBufferExprs(
              PrepareAllocOutputBufferExprs(f)))),
        with_expr_gen_tensor_default))

-----------------------------------------------------------------------------
(* Inputs *)

SeqsUpTo(S, k) == UNION {[1..m -> S] : m \in 0..k}

BodyOf(refs, annots) == [EmptyBody EXCEPT !.refs = refs, !.annots = annots]

\* what a builder hands to Make: the arguments, the body, the temp buffers;
\* n is the value num_output_tensors holds
MakeInput(args, body, temp_bufs, n) ==
    [args |-> args, body |-> body, temp_bufs |-> temp_bufs, n |-> n]

\* signatures: every argument list over two buffers and a scalar
SignatureInputs ==
    {MakeInput(args, EmptyBody, <<>>, n) :
        args \in SeqsUpTo({ArgumentBuffer(b, io) : b \in {"A", "B"}, io \in IOs}
                            \cup {ArgumentVar(v, io) : v \in VarNames, io \in IOs}, MaxArgs),
        n \in 0..MaxArgs}

\* bodies: every sequence of tensor reference nodes, under a few signatures
BodyInputs ==
    {MakeInput(sig[1], BodyOf(refs, {}), temp_bufs, sig[2]) :
        sig \in {<<<<>>, 0>>,
                 <<<<ArgumentBuffer("B", "kOutput")>>, 1>>,
                 <<<<ArgumentBuffer("A", "kInput"), ArgumentBuffer("B", "kOutput")>>, 1>>,
                 <<<<ArgumentBuffer("A", "kInput"), ArgumentBuffer("B", "kOutput")>>, 0>>},
        refs \in SeqsUpTo(TensorRefs, MaxRefs),
        temp_bufs \in {<<>>, <<"C">>}}

\* launch shapes: every set of bound loops, one per axis at most
AxisInputs ==
    {MakeInput(<<>>, BodyOf(<<>>, ls), <<>>, 0) :
        ls \in {x \in SUBSET BoundLoops :
                  /\ Cardinality(x) <= MaxLoops
                  /\ \A l1, l2 \in x : l1.axis = l2.axis => l1 = l2}}

-----------------------------------------------------------------------------
(* State *)

\* argv: an argument vector a builder is assembling
\* stage: None (no function), Draft, Finalized, Aborted (the pipeline raised)
\* fn: the _LoweredFunc_ node;  err: the error the last operation raised
\* call: the last operation and its flag: with_expr_gen_tensor of
\*   PrepareBufferCastExprs; for set_buffer/set_var, whether the argument
\*   held a payload of the other kind when it was called

Op(op) == [op |-> op, flag |-> FALSE]

Init ==
    /\ argv = <<>>
    /\ stage = "None"
    /\ fn = NewNode(0)
    /\ call = Op("init")
    /\ err = NoError

-----------------------------------------------------------------------------
(* Building arguments *)

NewArgument ==
    /\ Len(argv) < MaxArgv
    /\ argv' = Append(argv, Argument)
    /\ call' = Op("Argument")
    /\ UNCHANGED <<stage, fn, err>>

NewArgumentBuffer ==
    /\ Len(argv) < MaxArgv
    /\ \E b \in BufferNames, io \in IOs : argv' = Append(argv, ArgumentBuffer(b, io))
    /\ call' = Op("Argument(buffer)")
    /\ UNCHANGED <<stage, fn, err>>

NewArgumentVar ==
    /\ Len(argv) < MaxArgv
    /\ \E v \in VarNames, io \in IOs : argv' = Append(argv, ArgumentVar(v, io))
    /\ call' = Op("Argument(var)")
    /\ UNCHANGED <<stage, fn, err>>

SetBuffer ==
    /\ \E i \in 1..Len(argv), x \in BufferNames \cup {Undef} :
          /\ argv' = [argv EXCEPT ![i] = set_buffer(argv[i], x)]
          /\ call' = [op |-> "set_buffer", flag |-> argv[i].var_arg_ # Undef]
    /\ UNCHANGED <<stage, fn, err>>

SetVar ==
    /\ \E i \in 1..Len(argv), x \in VarNames \cup {Undef} :
          /\ argv' = [argv EXCEPT ![i] = set_var(argv[i], x)]
          /\ call' = [op |-> "set_var", flag |-> argv[i].buffer_arg_ # Undef]
    /\ UNCHANGED <<stage, fn, err>>

NextArgument ==
    \/ NewArgument
    \/ NewArgumentBuffer
    \/ NewArgumentVar
    \/ SetBuffer
    \/ SetVar

SpecArgument == Init /\ [][NextArgument]_vars

-----------------------------------------------------------------------------
(* Building and preparing a function *)

\* the outcome of running the pipeline on node f
RunPipeline(f) ==
    LET g == Prepare(f)
        e == CheckValid(g)
    IN  [stage |-> IF e = NoError THEN "Finalized" ELSE "Aborted", fn |-> g, err |-> e]

MakeResult(nm, args, body, temp_bufs, n) ==
    RunPipeline([NewNode(n) EXCEPT !.name = nm, !.args = args, !.body = body,
                                   !.temp_bufs = temp_bufs])

\* a simple form that runs the pipeline as the full form does
MakeSimpleResult_prepared(nm, args, body, n) ==
    RunPipeline([NewNode(n) EXCEPT !.name = nm, !.args = args, !.body = body])

MakeSimpleResult(nm, args, body, n) ==
    [stage |-> "Draft",
     fn |-> [NewNode(n) EXCEPT !.name = nm, !.args = args, !.body = body],
     err |-> NoError]

Make(Inputs) ==
    /\ stage = "None"
    /\ \E nm \in FuncNames, in \in Inputs :
          LET r == MakeResult(nm, in.args, in.body, in.temp_bufs, in.n)
          IN  /\ stage' = r.stage
              /\ fn' = r.fn
              /\ err' = r.err
    /\ call' = Op("Make")
    /\ UNCHANGED argv

MakeSimple(Inputs) ==
    /\ stage = "None"
    /\ \E nm \in FuncNames, in \in Inputs :
          LET r == MakeSimpleResult(nm, in.args, in.body, in.n)
          IN  /\ stage' = r.stage
              /\ fn' = r.fn
              /\ err' = r.err
    /\ call' = Op("MakeSimple")
    /\ UNCHANGED argv

\* a pass records the temp buffers it found
SetTempBufs ==
    /\ stage = "Draft"
    /\ \E t \in {<<>>, <<"C">>} \ {fn.temp_bufs} : fn' = [fn EXCEPT !.temp_bufs = t]
    /\ call' = Op("temp_bufs")
    /\ UNCHANGED <<argv, stage, err>>

\* a pass threads a temp space through the signature: one more argument at
\* the end of args, and its TempSpaceInfo
AddTempSpace ==
    /\ stage = "Draft"
    /\ Len(fn.temp_spaces) < MaxTempSpaces
    /\ \E io \in IOs :
          fn' = [fn EXCEPT !.args = Append(fn.args, ArgumentBuffer("C", io)),
                           !.temp_spaces = Append(fn.temp_spaces,
                               TempSpaceInfo(TempSpaceSize, Len(fn.args), FALSE))]
    /\ call' = Op("temp_spaces")
    /\ UNCHANGED <<argv, stage, err>>

SetNumOutputTensors ==
    /\ stage = "Draft"
    /\ \E n \in 0..Len(fn.args) :
          /\ n # fn.num_output_tensors
          /\ fn' = [fn EXCEPT !.num_output_tensors = n]
    /\ call' = Op("num_output_tensors")
    /\ UNCHANGED <<argv, stage, err>>

\* the preparation pipeline run on a draft
Finalize ==
    /\ stage = "Draft"
    /\ LET r == RunPipeline(fn)
       IN  /\ stage' = r.stage
           /\ fn' = r.fn
           /\ err' = r.err
    /\ call' = Op("Finalize")
    /\ UNCHANGED argv

\* a pass rewrites the body: a tensor reference node appears or goes
MutateBody ==
    /\ stage \in {"Draft", "Finalized"}
    /\ \E refs \in {Append(fn.body.refs, r) : r \in TensorRefs}
                     \cup {SubSeq(fn.body.refs, 1, i - 1)
                             \o SubSeq(fn.body.refs, i + 1, Len(fn.body.refs)) :
                           i \in 1..Len(fn.body.refs)} :
          /\ Len(refs) <= MaxRefs
          /\ fn' = [fn EXCEPT !.body.refs = refs]
    /\ call' = Op("body")
    /\ UNCHANGED <<argv, stage, err>>

SetDeviceApi ==
    /\ stage \in {"Draft", "Finalized"}
    /\ \E d \in DeviceAPIs \ {fn.device_api} : fn' = [fn EXCEPT !.device_api = d]
    /\ call' = Op("device_api")
    /\ UNCHANGED <<argv, stage, err>>

RunPrepareBufferCastExprs ==
    /\ stage \in {"Draft", "Finalized"}
    /\ \E with_expr_gen_tensor \in BOOLEAN :
          /\ fn' = PrepareBufferCastExprs(fn, with_expr_gen_tensor)
          /\ call' = [op |-> "PrepareBufferCastExprs", flag |-> with_expr_gen_tensor]
    /\ UNCHANGED <<argv, stage, err>>

RunPrepareCudaAxisInfoFromBody ==
    /\ stage \in {"Draft", "Finalized"}
    /\ fn' = PrepareCudaAxisInfoFromBody(fn)
    /\ call' = Op("PrepareCudaAxisInfoFromBody")
    /\ UNCHANGED <<argv, stage, err>>

\* the last reference to the node is dropped
Release ==
    /\ stage # "None"
    /\ stage' = "None"
    /\ fn' = NewNode(0)
    /\ err' = NoError
    /\ call' = Op("Release")
    /\ UNCHANGED argv

\* signatures
NextSignature ==
    \/ Make(SignatureInputs)
    \/ MakeSimple(SignatureInputs)
    \/ AddTempSpace
    \/ SetNumOutputTensors
    \/ Finalize
    \/ Release

SpecSignature == Init /\ [][NextSignature]_vars

\* bodies and the lists derived from them
NextBody ==
    \/ Make(BodyInputs)
    \/ MakeSimple(BodyInputs)
    \/ SetTempBufs
    \/ Finalize
    \/ MutateBody
    \/ RunPrepareBufferCastExprs
    \/ RunPrepareCudaAxisInfoFromBody
    \/ Release

SpecBody == Init /\ [][NextBody]_vars

\* launch shapes
NextAxis ==
    \/ Make(AxisInputs)
    \/ MakeSimple(AxisInputs)
    \/ SetDeviceApi
    \/ RunPrepareCudaAxisInfoFromBody
    \/ Finalize
    \/ Release

SpecAxis == Init /\ [][NextAxis]_vars

-----------------------------------------------------------------------------
(* Properties of the signature *)

\* the arguments before the temp-space arguments
SignatureLen == Len(fn.args) - Len(fn.temp_spaces)

IsOutputTagged(i) == fn.args[i].io = "kOutput"

IsInputTagged(i) == fn.args[i].io = "kInput"

\* C1: in a finalized function the args are the Input-tagged arguments, then
\* exactly num_output_tensors Output-tagged tensor arguments, then the
\* temp-space arguments: no Output-tagged argument precedes an Input-tagged
\* one, the num_output_tensors entries right before the temp-space arguments
\* are exactly the Output-tagged ones, and temp spaces are not counted.
C1_SignatureOrder ==
    stage = "Finalized" =>
        LET m == SignatureLen
            n == fn.num_output_tensors
        IN  /\ 0 <= n /\ n <= m
            /\ \A i, j \in 1..m : i < j => ~(IsOutputTagged(i) /\ IsInputTagged(j))
            /\ \A i \in 1..m : IsOutputTagged(i) <=> i > m - n
            /\ \A i \in (m - n + 1)..m : fn.args[i].buffer_arg_ # Undef
            /\ \A k \in 1..Len(fn.temp_spaces) :
                  /\ fn.temp_spaces[k].arg_idx_ >= m
                  /\ fn.temp_spaces[k].arg_idx_ < Len(fn.args)

\* a finalized function with an input, an output and a temp-space argument
C1_Witness ==
    /\ stage = "Finalized"
    /\ Len(fn.temp_spaces) = 1
    /\ fn.num_output_tensors >= 1
    /\ \E i \in 1..SignatureLen : IsInputTagged(i)

\* the dynamic-size buffers of the Output-tagged arguments
DynamicOutputBuffers ==
    {fn.args[i].buffer_arg_ : i \in {j \in 1..Len(fn.args) :
        IsOutputTagged(j) /\ fn.args[j].buffer_arg_ \in DynamicBuffers}}

\* the first argument that passes buffer b as an output
FirstOutputPos(b) ==
    CHOOSE i \in 1..Len(fn.args) :
        /\ IsOutputTagged(i) /\ fn.args[i].buffer_arg_ = b
        /\ \A j \in 1..(i - 1) : ~(IsOutputTagged(j) /\ fn.args[j].buffer_arg_ = b)

RECURSIVE OutputPrefixLen(_)
\* length of the longest prefix of args whose arguments are all Output-tagged
OutputPrefixLen(args) ==
    IF args = <<>> \/ Head(args).io # "kOutput" THEN 0
    ELSE 1 + OutputPrefixLen(Tail(args))

\* C5 as stated: the Output-tagged prefix of args has length
\* num_output_tensors, and no Output-tagged argument precedes an Input-tagged
\* one in the rest of args.
C5_OutputPrefix ==
    stage = "Finalized" =>
        LET p == OutputPrefixLen(fn.args)
        IN  /\ p = fn.num_output_tensors
            /\ \A i, j \in (p + 1)..Len(fn.args) :
                  i < j => ~(IsOutputTagged(i) /\ IsInputTagged(j))

\* C5 amended: the Output-tagged suffix of the arguments before the
\* temp-space arguments has length num_output_tensors, and no Output-tagged
\* argument precedes an Input-tagged one in the rest of them.
C5_OutputSuffix ==
    stage = "Finalized" =>
        LET m == SignatureLen
            q == OutputPrefixLen(Reverse(SubSeq(fn.args, 1, m)))
        IN  /\ q = fn.num_output_tensors
            /\ \A i, j \in 1..(m - q) :
                  i < j => ~(IsOutputTagged(i) /\ IsInputTagged(j))

\* a finalized function whose outputs follow an input
C5_Witness ==
    /\ stage = "Finalized"
    /\ fn.num_output_tensors >= 1
    /\ IsInputTagged(1)
    /\ OutputPrefixLen(fn.args) = 0

-----------------------------------------------------------------------------
(* Properties of the body and the lists derived from it *)

\* the names args and temp_bufs declare
DeclaredNames ==
    ({fn.args[i].buffer_arg_ : i \in 1..Len(fn.args)}
        \cup {fn.args[i].var_arg_ : i \in 1..Len(fn.args)}
        \cup {fn.temp_bufs[i] : i \in 1..Len(fn.temp_bufs)}) \ {Undef}

\* the names the body references
ReferencedNames == {fn.body.refs[i].name : i \in 1..Len(fn.body.refs)}

\* C3: construction succeeds only if every buffer the body references is in
\* args or temp_bufs; if one is in neither, construction fails with an
\* UnresolvedReferenceError that names such a buffer, and no finalized
\* function is produced.
C3_UnresolvedReference ==
    call.op \in {"Make", "Finalize"} =>
        /\ stage = "Finalized" => ReferencedNames \subseteq DeclaredNames
        /\ ~(ReferencedNames \subseteq DeclaredNames) =>
              /\ stage = "Aborted"
              /\ err.kind = "UnresolvedReferenceError"
        /\ err.kind = "UnresolvedReferenceError" =>
              err.name \in ReferencedNames \ DeclaredNames

\* construction failed on a body that references an undeclared buffer next
\* to a declared one
C3_Witness ==
    /\ call.op = "Make"
    /\ stage = "Aborted"
    /\ err = [kind |-> "UnresolvedReferenceError", name |-> "C"]
    /\ "B" \in ReferencedNames \cap DeclaredNames

\* the flag of the last run of PrepareBufferCastExprs, when the last
\* operation was one: the pipeline runs it with the default, true
LastCastRun ==
    IF call.op = "PrepareBufferCastExprs" THEN <<call.flag>>
    ELSE IF call.op \in {"Make", "Finalize"} THEN <<TRUE>>
    ELSE <<>>

AdmittedNames(with_expr_gen_tensor) ==
    {fn.body.refs[i].name : i \in {j \in 1..Len(fn.body.refs) :
        with_expr_gen_tensor \/ ~fn.body.refs[j].gen}}

\* C7: for any body, no two tensors CollectAllTensorReference returns share
\* a name, and every tensor name the body references (subject to the flag)
\* is in the result exactly once.
C7_CollectDistinctNames ==
    \A with_expr_gen_tensor \in BOOLEAN :
        LET ts == CollectAllTensorReference(fn, with_expr_gen_tensor)
        IN  /\ \A i, j \in 1..Len(ts) : ts[i].name = ts[j].name => i = j
            /\ {ts[i].name : i \in 1..Len(ts)} = AdmittedNames(with_expr_gen_tensor)
            /\ \A i \in 1..Len(ts) :
                  /\ ts[i].node \in 1..Len(fn.body.refs)
                  /\ fn.body.refs[ts[i].node].name = ts[i].name

\* a body that references one tensor through two nodes
C7_Witness ==
    /\ stage \in {"Draft", "Finalized"}
    /\ Len(fn.body.refs) = 2
    /\ fn.body.refs[1].name = fn.body.refs[2].name
    /\ fn.body.refs[1].gen # fn.body.refs[2].gen
    /\ Len(CollectAllTensorReference(fn, TRUE)) = 1

ListsEmpty(f) ==
    /\ f.alloc_output_buffer_exprs = <<>>
    /\ f.dealloc_output_buffer_exprs = <<>>
    /\ f.buffer_data_cast_exprs = <<>>
    /\ f.argument_prepare_exprs = <<>>

\* C10: the simple Make form yields a Draft whose four derived lists are not
\* populated; a function becomes Finalized only by a run of the pipeline
\* whose CheckValid passes; a Finalized function never returns to Draft,
\* whatever preparation step is run on it again.
C10_DraftFinalized ==
    [][/\ call'.op = "MakeSimple" => stage' = "Draft" /\ ListsEmpty(fn')
       /\ (stage # "Finalized" /\ stage' = "Finalized") =>
              /\ call'.op \in {"Make", "Finalize"}
              /\ call'.op = "Finalize" <=> stage = "Draft"
              /\ err' = NoError
       /\ stage = "Finalized" => stage' # "Draft"]_vars

\* a draft with outputs and references was finalized by the pipeline
C10_Witness ==
    /\ stage = "Finalized"
    /\ call.op = "Finalize"
    /\ fn.alloc_output_buffer_exprs # <<>>
    /\ fn.buffer_data_cast_exprs # <<>>
    /\ fn.argument_prepare_exprs # <<>>

-----------------------------------------------------------------------------
(* Properties of the launch shape *)

\* invalid, and all six dimensions the constant 1
Unset(c) ==
    /\ valid(c) = FALSE
    /\ \A i \in 0..2 : grid_dim(c, i) = 1 /\ block_dim(c, i) = 1

\* C8: a freshly default-constructed CudaAxisInfo is invalid with grid_dim(i)
\* and block_dim(i) equal to 1 for i in 0..2; so a function whose
\* cuda_axis_info has never been set reports is_gpu_host() false.
C8_CudaAxisInfoDefault ==
    [][/\ call'.op \in {"Make", "MakeSimple"} =>
              Unset(fn'.cuda_axis_info) /\ ~is_gpu_host(fn')
       /\ (/\ Unset(fn.cuda_axis_info)
           /\ call'.op \notin {"PrepareCudaAxisInfoFromBody", "Finalize"}) =>
              Unset(fn'.cuda_axis_info) /\ ~is_gpu_host(fn')]_vars

\* a finalized GPU function with bound loops whose launch shape was never set
C8_Witness ==
    /\ stage = "Finalized"
    /\ fn.device_api = "GPU"
    /\ fn.body.annots # {}
    /\ call.op = "device_api"
    /\ Unset(fn.cuda_axis_info)
    /\ ~is_gpu_host(fn)

\* the extent the body binds to an axis, 1 when it binds none
AnnotatedExtent(body, kind, offset) ==
    IF \E l \in body.annots : l.axis = <<kind, offset>>
    THEN (CHOOSE l \in body.annots : l.axis = <<kind, offset>>).extent
    ELSE 1

\* C9: PrepareCudaAxisInfoFromBody populates cuda_axis_info only for a GPU
\* device_api: if the body carries grid/block loop annotations, afterwards
\* cuda_axis_info is valid, is_gpu_host() is true and every grid/block
\* dimension is the annotated extent of its axis, 1 for an axis without
\* annotation; with no annotation, or a device_api that is not GPU, an
\* invalid cuda_axis_info stays invalid and is_gpu_host() stays false.
C9_CudaAxisInfoFromBody ==
    [][call'.op = "PrepareCudaAxisInfoFromBody" =>
          /\ (fn.device_api = "GPU" /\ fn.body.annots # {}) =>
                /\ fn'.cuda_axis_info.valid_ = TRUE
                /\ is_gpu_host(fn')
                /\ \A i \in 0..2 :
                      /\ grid_dim(fn'.cuda_axis_info, i)
                            = AnnotatedExtent(fn.body, "grid", i)
                      /\ block_dim(fn'.cuda_axis_info, i)
                            = AnnotatedExtent(fn.body, "block", i)
          /\ fn.device_api # "GPU" => fn'.cuda_axis_info = fn.cuda_axis_info
          /\ ((fn.device_api # "GPU" \/ fn.body.annots = {})
                /\ fn.cuda_axis_info.valid_ = FALSE) =>
                /\ fn'.cuda_axis_info.valid_ = FALSE
                /\ ~is_gpu_host(fn')]_vars

\* a GPU function with a grid loop of extent 256 and a block loop of extent
\* 32 after PrepareCudaAxisInfoFromBody
C9_Witness ==
    /\ call.op = "PrepareCudaAxisInfoFromBody"
    /\ fn.device_api = "GPU"
    /\ fn.body.annots = {[axis |-> <<"grid", 0>>, extent |-> 256],
                         [axis |-> <<"block", 0>>, extent |-> 32]}
    /\ is_gpu_host(fn)
    /\ fn.cuda_axis_info.grid_dims_ = <<256, 1, 1>>
    /\ fn.cuda_axis_info.block_dims_ = <<32, 1, 1>>

-----------------------------------------------------------------------------
(* Properties of Argument *)

\* C4: for every Argument reached by a constructor and any sequence of
\* set_buffer and set_var calls, whenever defined() is true exactly one of
\* is_var() and is_buffer() is true: the setters replace the payload.
C4_ArgumentExclusive ==
    \A i \in 1..Len(argv) :
        /\ defined(argv[i]) => (is_var(argv[i]) # is_buffer(argv[i]))
        /\ defined(argv[i]) <=> (argv[i].buffer_arg_ # Undef \/ argv[i].var_arg_ # Undef)

\* set_buffer was called on an argument that held a var, and an argument
\* holds a buffer
C4_Witness ==
    /\ call = [op |-> "set_buffer", flag |-> TRUE]
    /\ \E i \in 1..Len(argv) : is_buffer(argv[i]) /\ ~is_var(argv[i])

====
